---- MODULE Spec2Model ----
(***************************************************************************)
(* Model of src/app.py, the Streamlit "Vessel Transit Counts" script.      *)
(*                                                                         *)
(* The script is re-executed from top to bottom on every widget            *)
(* interaction.  One execution parses the two polygon texts, builds the    *)
(* two shapely polygons and, once session_state.run is set, reads the      *)
(* position table, filters it with the big polygon, flags the rows with    *)
(* the small polygon, derives entry/exit rows and merges them to voyages.  *)
(* The pandas/geopandas column operations are modelled over sequences of   *)
(* records, one record per row, in table order.  The map preview (lines    *)
(* 62-113) and the Excel export do not change any of this and are left     *)
(* out.                                                                    *)
(***************************************************************************)
EXTENDS Integers, Sequences, FiniteSets

(***************************************************************************)
(* Bounds of the model.                                                    *)
(***************************************************************************)
MaxRows == 4

Imos == {1, 2}
Timestamps == {1, 2}

(***************************************************************************)
(* Generic sequence helpers.                                               *)
(***************************************************************************)
RECURSIVE SeqsUpTo(_, _)
SeqsUpTo(S, n) ==
    IF n = 0 THEN {<<>>}
    ELSE SeqsUpTo(S, n - 1) \cup [1..n -> S]

Min(a, b) == IF a < b THEN a ELSE b
Max(a, b) == IF a < b THEN b ELSE a

(***************************************************************************)
(* Text areas.  A text is a sequence of lines (text.strip().splitlines()), *)
(* a line is the sequence of its comma-separated fields, and a field is    *)
(* either the decimal notation of a number or something float() rejects.   *)
(***************************************************************************)
Num(v) == [junk |-> FALSE, val |-> v]
Junk == [junk |-> TRUE, val |-> 0]

\* float(x.strip()) raises ValueError on a field that is not a number.
FloatOk(field) == ~field.junk
Float(field) == field.val

\* lat, lon = [float(x.strip()) for x in line.split(",")] succeeds iff the
\* line has exactly two fields and both are numbers.
LineParses(line) ==
    /\ Len(line) = 2
    /\ FloatOk(line[1])
    /\ FloatOk(line[2])

\* parse_coords: the (lat, lon) pairs of the lines that parse, in order; the
\* other lines only produce a warning.
parse_coords(text) ==
    LET good == SelectSeq(text, LineParses)
    IN  [i \in 1..Len(good) |-> <<Float(good[i][1]), Float(good[i][2])>>]

\* The st.warning calls of parse_coords: one per line that does not parse.
parse_warnings(text) ==
    LET NotParses(line) == ~LineParses(line)
    IN  Len(SelectSeq(text, NotParses))

\* [(lon, lat) for lat, lon in COORDS]
SwapLatLon(coords) == [i \in 1..Len(coords) |-> <<coords[i][2], coords[i][1]>>]

(***************************************************************************)
(* shapely.  Polygon(shell) of an empty coordinate list is the empty       *)
(* polygon, of one or two coordinates raises ValueError, and of three or   *)
(* more is the polygon of the implicitly closed ring.                      *)
(***************************************************************************)
PolygonRaises(shell) == Len(shell) \in {1, 2}
Polygon(shell) == [shell |-> shell]

Cross(a, b, p) == (b[1] - a[1]) * (p[2] - a[2]) - (b[2] - a[2]) * (p[1] - a[1])

OnSegment(p, a, b) ==
    /\ Cross(a, b, p) = 0
    /\ Min(a[1], b[1]) <= p[1] /\ p[1] <= Max(a[1], b[1])
    /\ Min(a[2], b[2]) <= p[2] /\ p[2] <= Max(a[2], b[2])

\* Edge a-b crosses the horizontal ray from p towards +x.
RayCrosses(p, a, b) ==
    /\ (a[2] > p[2]) # (b[2] > p[2])
    /\ IF b[2] > a[2]
       THEN (p[1] - a[1]) * (b[2] - a[2]) < (p[2] - a[2]) * (b[1] - a[1])
       ELSE (p[1] - a[1]) * (b[2] - a[2]) > (p[2] - a[2]) * (b[1] - a[1])

\* Position of point p relative to a polygon: "interior", "boundary" or
\* "exterior" (the empty polygon has everything in its exterior).
Locate(poly, p) ==
    LET ring == poly.shell
        n == Len(ring)
        Nxt(i) == ring[(i % n) + 1]
    IN  IF n = 0 THEN "exterior"
        ELSE IF \E i \in 1..n : OnSegment(p, ring[i], Nxt(i)) THEN "boundary"
        ELSE IF Cardinality({i \in 1..n : RayCrosses(p, ring[i], Nxt(i))}) % 2 = 1
             THEN "interior"
        ELSE "exterior"

\* point.within(poly): the point lies in the interior of poly.
within(p, poly) == Locate(poly, p) = "interior"

\* poly.covers(point): no part of the point lies in the exterior of poly.
covers(poly, p) == Locate(poly, p) \in {"interior", "boundary"}

\* gpd.points_from_xy(df["longitude"], df["latitude"])
points_from_xy(row) == <<row.longitude, row.latitude>>

(***************************************************************************)
(* pandas.  A data frame is the sequence of its rows in table order.       *)
(***************************************************************************)
\* Variant: the sort key leaves out the timestamp.
KeyLessImoOnly(a, b) == a.imo < b.imo

\* Row a sorts strictly before row b under by=["imo", "timestamp"].
KeyLess(a, b) ==
    \/ a.imo < b.imo
    \/ a.imo = b.imo /\ a.timestamp < b.timestamp

\* Insert row r after every row whose key is not greater (stable).
RECURSIVE InsertSorted(_, _)
InsertSorted(df, r) ==
    IF df = <<>> THEN <<r>>
    ELSE IF KeyLess(r, df[Len(df)])
         THEN Append(InsertSorted(SubSeq(df, 1, Len(df) - 1), r), df[Len(df)])
         ELSE Append(df, r)

\* df.sort_values(["imo", "timestamp"]): a stable sort on the two keys.
RECURSIVE sort_values(_)
sort_values(df) ==
    IF df = <<>> THEN <<>>
    ELSE InsertSorted(sort_values(SubSeq(df, 1, Len(df) - 1)), df[Len(df)])

\* .reset_index(drop=True): the rows are labelled 0, 1, 2, ... in table order.
reset_index(df) ==
    [i \in 1..Len(df) |->
        [index |-> i - 1, imo |-> df[i].imo, timestamp |-> df[i].timestamp,
         latitude |-> df[i].latitude, longitude |-> df[i].longitude]]

\* gdf[gdf.within(big_poly)]: the rows whose point is within the big polygon.
FilterWithin(df, big) ==
    LET Keep(row) == within(points_from_xy(row), big)
    IN  SelectSeq(df, Keep)

\* Positions of the rows before position i that belong to the same imo group.
EarlierInGroup(df, i) == {j \in 1..(i - 1) : df[j].imo = df[i].imo}

\* Variant: head(1) of the whole frame instead of one head per imo.
first_idx_frame(df) == IF df = <<>> THEN {} ELSE {df[1].index}

\* gdf_clean.groupby("imo").head(1).index: labels of the first row per imo.
first_idx(df) == {df[i].index : i \in {k \in 1..Len(df) : EarlierInGroup(df, k) = {}}}

\* Variant: the first observation of an imo keeps its geometric flag.
in_box_no_override(row, small, first) == covers(small, points_from_xy(row))

\* gdf_clean["in_box"] = geometry.apply(small_poly.covers), followed by
\* gdf_clean.loc[first_idx, "in_box"] = False: row by row, given the labels
\* in first_idx.
in_box(row, small, first) ==
    IF row.index \in first THEN FALSE
    ELSE covers(small, points_from_xy(row))

\* Variant: shift(1) over the whole frame instead of per imo.
in_box_shift_frame(df, col, i) ==
    IF i = 1 THEN "NaN"
    ELSE IF col[i - 1] THEN "True" ELSE "False"

\* groupby("imo")["in_box"].shift(1): the value of the previous row of the
\* same imo, NaN on the first row of each imo (an object column).
in_box_shift(df, col, i) ==
    LET prev == EarlierInGroup(df, i)
    IN  IF prev = {} THEN "NaN"
        ELSE LET j == CHOOSE k \in prev : \A m \in prev : m <= k
             IN  IF col[j] THEN "True" ELSE "False"

\* (in_box == True) & (in_box_shift == False)
entry(inbox, shifted) == inbox = TRUE /\ shifted = "False"

\* Variant: a missing previous flag counts as "was inside".
exit_nan_as_true(inbox, shifted) == inbox = FALSE /\ shifted # "False"

\* (in_box == False) & (in_box_shift == True)
exit(inbox, shifted) == inbox = FALSE /\ shifted = "True"

\* groupby("imo")[flag].cumsum() at position i for a boolean column flag.
GroupCumsum(df, flag, i) ==
    Cardinality({j \in EarlierInGroup(df, i) \cup {i} : flag[j]})

\* A column assigned to the frame: the values, one per row, as a sequence.
Column(f) == SubSeq(f, 1, Len(f))

\* gdf_clean with the columns in_box, in_box_shift, entry, exit, entry_id
\* and exit_id added to the sorted copy of gdf.
Clean(gdf0, small) ==
    LET df == sort_values(gdf0)
        first == first_idx(df)
        col == Column([i \in 1..Len(df) |-> in_box(df[i], small, first)])
        sh == Column([i \in 1..Len(df) |-> in_box_shift(df, col, i)])
        en == Column([i \in 1..Len(df) |-> entry(col[i], sh[i])])
        ex == Column([i \in 1..Len(df) |-> exit(col[i], sh[i])])
    IN  [i \in 1..Len(df) |->
            [index |-> df[i].index, imo |-> df[i].imo,
             timestamp |-> df[i].timestamp,
             latitude |-> df[i].latitude, longitude |-> df[i].longitude,
             in_box |-> col[i],
             in_box_shift |-> sh[i],
             entry |-> en[i], exit |-> ex[i],
             entry_id |-> GroupCumsum(df, en, i),
             exit_id |-> GroupCumsum(df, ex, i)]]

\* gdf_clean[gdf_clean["entry"]][["imo", "timestamp", "entry_id"]] renamed,
\* with pair_id = entry_id.
Entries(clean) ==
    LET IsEntry(row) == row.entry
        sel == SelectSeq(clean, IsEntry)
    IN  [i \in 1..Len(sel) |->
            [imo |-> sel[i].imo, entry_time |-> sel[i].timestamp,
             entry_id |-> sel[i].entry_id, pair_id |-> sel[i].entry_id]]

\* gdf_clean[gdf_clean["exit"]][["imo", "timestamp", "exit_id"]] renamed,
\* with pair_id = exit_id.
Exits(clean) ==
    LET IsExit(row) == row.exit
        sel == SelectSeq(clean, IsExit)
    IN  [i \in 1..Len(sel) |->
            [imo |-> sel[i].imo, exit_time |-> sel[i].timestamp,
             exit_id |-> sel[i].exit_id, pair_id |-> sel[i].exit_id]]

\* Variant: the join key leaves out pair_id.
MergeKeyImoOnly(l, r) == l.imo = r.imo

\* Rows of the right frame that share the join key with a left row.
MergeKeyEq(l, r) == l.imo = r.imo /\ l.pair_id = r.pair_id

\* One joined row, with duration = exit_time - entry_time.
Joined(l, r) ==
    [imo |-> l.imo, pair_id |-> l.pair_id,
     entry_time |-> l.entry_time, entry_id |-> l.entry_id,
     exit_time |-> r.exit_time, exit_id |-> r.exit_id,
     duration |-> r.exit_time - l.entry_time]

\* pd.merge(entries, exits, on=["imo", "pair_id"], how="inner"): for every
\* left row, in left order, one output row per matching right row.
RECURSIVE merge(_, _)
merge(left, right) ==
    IF left = <<>> THEN <<>>
    ELSE LET l == left[Len(left)]
             Match(r) == MergeKeyEq(l, r)
             m == SelectSeq(right, Match)
         IN  merge(SubSeq(left, 1, Len(left) - 1), right)
                \o [k \in 1..Len(m) |-> Joined(l, m[k])]

(***************************************************************************)
(* Inputs.  Coordinates are small integers; the default areas are the      *)
(* rectangles lat 1..3, lon 2..4 (small) inside lat 0..4, lon 0..6 (big).  *)
(***************************************************************************)
\* Vertices (lat, lon) the user types for the small and the big polygon.
SmallCorners == << <<1, 2>>, <<1, 4>>, <<3, 4>>, <<3, 2>> >>
BigCorners == << <<0, 0>>, <<0, 6>>, <<4, 6>>, <<4, 0>> >>

GoodLine(c) == <<Num(c[1]), Num(c[2])>>
JunkLine(c) == <<Num(c[1]), Junk>>
LongLine(c) == <<Num(c[1]), Num(c[2]), Num(0)>>

\* The default value of the two text areas: four well-formed lines.
DefaultSmallText == [i \in 1..4 |-> GoodLine(SmallCorners[i])]
DefaultBigText == [i \in 1..4 |-> GoodLine(BigCorners[i])]

\* The default text edited line by line: line i is vertex i of the ring,
\* typed correctly, with a non-numeric field, or with a third field.
EditedTexts(corners) ==
    {t \in [1..Len(corners) ->
                UNION {{GoodLine(corners[i]), JunkLine(corners[i]),
                        LongLine(corners[i])} : i \in 1..Len(corners)}] :
        \A i \in 1..Len(corners) :
            t[i] \in {GoodLine(corners[i]), JunkLine(corners[i]), LongLine(corners[i])}}

\* Positions (lat, lon): outside the big area, on its boundary, inside big
\* but outside small, on the boundary of small, inside small.
PosOutsideBig == <<5, 3>>
PosOnBig == <<0, 3>>
PosBetween == <<2, 5>>
PosOnSmall == <<1, 3>>
PosInSmall == <<2, 3>>

Row(imo, t, pos) ==
    [imo |-> imo, timestamp |-> t, latitude |-> pos[1], longitude |-> pos[2]]

\* Rows of the position table of the main specification.
RowSet ==
    {Row(v, t, pos) : v \in Imos, t \in Timestamps,
                      pos \in {PosBetween, PosInSmall}}
        \cup {Row(v, 1, PosOutsideBig) : v \in Imos}

\* Rows of the position table when the polygon texts vary: one vessel,
\* any of the five positions.
GeoRowSet ==
    {Row(1, t, pos) : t \in {1, 2},
                      pos \in {PosOutsideBig, PosOnBig, PosBetween,
                               PosOnSmall, PosInSmall}}

(***************************************************************************)
(* State.                                                                  *)
(***************************************************************************)
VARIABLES
    small_poly_text,  \* value of the SMALL_POLYGON text area
    big_poly_text,    \* value of the BIG_POLYGON text area
    df_all,           \* rows of the parquet files, concatenated
    run,              \* st.session_state.run
    status,           \* "idle", or how the last execution ended: "ok", "error"
    warnings,         \* st.warning calls of the last execution (big, small)
    built,            \* polygons constructed by the last execution
    big_poly,
    small_poly,
    executed,         \* the last execution ran the "if st.session_state.run" block
    gdf,
    gdf_clean,
    entries,
    exits,
    voyages

vars == <<small_poly_text, big_poly_text, df_all, run, status,
          warnings, built, big_poly, small_poly, executed, gdf, gdf_clean,
          entries, exits, voyages>>

inputs == <<small_poly_text, big_poly_text, df_all>>

EmptyPoly == Polygon(<<>>)

\* Nothing has been executed yet.
Fresh ==
    /\ run = FALSE
    /\ status = "idle"
    /\ warnings = <<0, 0>>
    /\ built = {}
    /\ big_poly = EmptyPoly
    /\ small_poly = EmptyPoly
    /\ executed = FALSE
    /\ gdf = <<>>
    /\ gdf_clean = <<>>
    /\ entries = <<>>
    /\ exits = <<>>
    /\ voyages = <<>>

Init ==
    /\ small_poly_text = DefaultSmallText
    /\ big_poly_text = DefaultBigText
    /\ df_all \in SeqsUpTo(RowSet, MaxRows)
    /\ Fresh

InitGeo ==
    /\ small_poly_text \in EditedTexts(SmallCorners)
    /\ big_poly_text = DefaultBigText
    /\ df_all \in SeqsUpTo(GeoRowSet, 2)
    /\ Fresh

(***************************************************************************)
(* One execution of the script, lines 10-213.                              *)
(***************************************************************************)
NoResults ==
    /\ executed' = FALSE
    /\ gdf' = <<>>
    /\ gdf_clean' = <<>>
    /\ entries' = <<>>
    /\ exits' = <<>>
    /\ voyages' = <<>>

\* The "if st.session_state.run" block, lines 137-213.
RunBlock ==
    /\ executed' = TRUE
    /\ gdf' = FilterWithin(reset_index(sort_values(df_all)), big_poly')
    /\ gdf_clean' = Clean(gdf', small_poly')
    /\ entries' = Entries(gdf_clean')
    /\ exits' = Exits(gdf_clean')
    /\ voyages' = merge(entries', exits')

Script(run_submit) ==
    LET BIG_POLYGON == parse_coords(big_poly_text)
        SMALL_POLYGON == parse_coords(small_poly_text)
    IN  /\ warnings' = <<parse_warnings(big_poly_text), parse_warnings(small_poly_text)>>
        /\ UNCHANGED inputs
        /\ IF PolygonRaises(SwapLatLon(BIG_POLYGON))
           THEN /\ status' = "error"
                /\ built' = {}
                /\ big_poly' = EmptyPoly
                /\ small_poly' = EmptyPoly
                /\ run' = run
                /\ NoResults
           ELSE IF PolygonRaises(SwapLatLon(SMALL_POLYGON))
           THEN /\ status' = "error"
                /\ built' = {"big"}
                /\ big_poly' = Polygon(SwapLatLon(BIG_POLYGON))
                /\ small_poly' = EmptyPoly
                /\ run' = run
                /\ NoResults
           ELSE /\ status' = "ok"
                /\ built' = {"big", "small"}
                /\ big_poly' = Polygon(SwapLatLon(BIG_POLYGON))
                /\ small_poly' = Polygon(SwapLatLon(SMALL_POLYGON))
                /\ run' = (run \/ run_submit)
                /\ IF run' THEN RunBlock ELSE NoResults

\* The user presses "Start running".
RunSubmit == Script(TRUE)

\* Any other execution of the script (page load, "Visualise Polygons",
\* interaction with the map).
Rerun == Script(FALSE)

Next == RunSubmit \/ Rerun

Spec == Init /\ [][Next]_vars

SpecGeo == InitGeo /\ [][Next]_vars

(***************************************************************************)
(* Vocabulary of the properties.                                           *)
(***************************************************************************)
\* The track of vessel v: its rows of gdf_clean, in table order.
TrackOf(v) ==
    LET Mine(row) == row.imo = v
    IN  SelectSeq(gdf_clean, Mine)

EntriesOf(v) ==
    LET Mine(row) == row.imo = v
    IN  SelectSeq(entries, Mine)

ExitsOf(v) ==
    LET Mine(row) == row.imo = v
    IN  SelectSeq(exits, Mine)

VoyagesOf(v) ==
    LET Mine(row) == row.imo = v
    IN  SelectSeq(voyages, Mine)

\* The timestamps of the positions K of track T, in track order.
RECURSIVE TimesAt(_, _, _)
TimesAt(T, K, n) ==
    IF n = 0 THEN <<>>
    ELSE TimesAt(T, K, n - 1) \o (IF n \in K THEN <<T[n].timestamp>> ELSE <<>>)

\* The kinds of the events of track T, in track order.
RECURSIVE EventKinds(_, _)
EventKinds(T, n) ==
    IF n = 0 THEN <<>>
    ELSE EventKinds(T, n - 1)
            \o (IF T[n].entry THEN <<"entry">> ELSE <<>>)
            \o (IF T[n].exit THEN <<"exit">> ELSE <<>>)

\* The row lies geometrically inside the small polygon (boundary included).
Inside(row) == covers(small_poly, points_from_xy(row))

\* The geometric inside/outside pattern of a track.
Pattern(T) == [k \in 1..Len(T) |-> Inside(T[k])]

\* Positions of track T that start an inside period / end one, by the flags.
EntryPositions(T) == {k \in 2..Len(T) : T[k].in_box /\ ~T[k - 1].in_box}
ExitPositions(T) == {k \in 2..Len(T) : ~T[k].in_box /\ T[k - 1].in_box}

\* The first geometrically outside position of a track that starts inside.
FirstOutside(T) ==
    {k \in 2..Len(T) : ~Inside(T[k]) /\ \A j \in 1..(k - 1) : Inside(T[j])}

\* Rows of df_all of vessel v that lie within the big polygon.
RetainedCount(v) ==
    Cardinality({i \in 1..Len(df_all) :
                    /\ df_all[i].imo = v
                    /\ within(points_from_xy(df_all[i]), big_poly)})

(***************************************************************************)
(* Properties.                                                             *)
(***************************************************************************)
\* C1: in every track (the retained positions of a vessel, ordered by
\* timestamp) an entry is emitted at exactly the non-first positions whose
\* flag is true while the previous flag is false, an exit at exactly those
\* whose flag is false while the previous flag is true, each with the
\* timestamp of the current position; a track outside, inside, inside,
\* outside gives exactly one voyage from the second to the fourth position.
C1_Transitions ==
    executed =>
        \A v \in Imos :
            LET T == TrackOf(v)
            IN  /\ Len(T) = RetainedCount(v)
                /\ \A k \in 2..Len(T) : T[k - 1].timestamp <= T[k].timestamp
                /\ \A k \in 1..Len(T) :
                      /\ T[k].entry <=> k \in EntryPositions(T)
                      /\ T[k].exit <=> k \in ExitPositions(T)
                /\ [i \in 1..Len(EntriesOf(v)) |-> EntriesOf(v)[i].entry_time]
                      = TimesAt(T, EntryPositions(T), Len(T))
                /\ [i \in 1..Len(ExitsOf(v)) |-> ExitsOf(v)[i].exit_time]
                      = TimesAt(T, ExitPositions(T), Len(T))
                /\ Pattern(T) = <<FALSE, TRUE, TRUE, FALSE>> =>
                      /\ Len(VoyagesOf(v)) = 1
                      /\ VoyagesOf(v)[1].entry_time = T[2].timestamp
                      /\ VoyagesOf(v)[1].exit_time = T[4].timestamp

\* A track outside, inside, inside, outside has been processed.
C1_Witness ==
    /\ executed
    /\ \E v \in Imos :
          /\ Pattern(TrackOf(v)) = <<FALSE, TRUE, TRUE, FALSE>>
          /\ Len(VoyagesOf(v)) = 1
          /\ VoyagesOf(v)[1].entry_time < VoyagesOf(v)[1].exit_time

\* C2: per vessel the voyages are exactly the pairs (k-th entry, k-th exit)
\* for k = 1..min(#entries, #exits); events without a partner of equal index
\* are dropped.
C2_IndexPairing ==
    executed =>
        \A v \in Imos :
            LET E == EntriesOf(v)
                X == ExitsOf(v)
                V == VoyagesOf(v)
            IN  /\ Len(V) = Min(Len(E), Len(X))
                /\ \A k \in 1..Len(V) :
                      /\ E[k].entry_id = k
                      /\ X[k].exit_id = k
                      /\ V[k].pair_id = k
                      /\ V[k].entry_time = E[k].entry_time
                      /\ V[k].exit_time = X[k].exit_time

\* A vessel with two entries and one exit: one voyage, one entry dropped.
C2_Witness ==
    /\ executed
    /\ \E v \in Imos :
          /\ Len(EntriesOf(v)) = 2
          /\ Len(ExitsOf(v)) = 1
          /\ Len(VoyagesOf(v)) = 1

\* C3: the flag of the first retained position of every vessel is false
\* whatever its geometric containment, no event is emitted there, and a
\* vessel with a single position has no events and no voyages.
C3_FirstForcedFalse ==
    executed =>
        \A v \in Imos :
            LET T == TrackOf(v)
            IN  Len(T) >= 1 =>
                  /\ T[1].in_box = FALSE
                  /\ ~T[1].entry
                  /\ ~T[1].exit
                  /\ Len(T) = 1 =>
                        /\ EntriesOf(v) = <<>>
                        /\ ExitsOf(v) = <<>>
                        /\ VoyagesOf(v) = <<>>

\* The second vessel of the table starts inside the small polygon.
C3_Witness ==
    /\ executed
    /\ Len(TrackOf(1)) >= 1
    /\ Len(TrackOf(2)) >= 1
    /\ Inside(TrackOf(2)[1])
    /\ \E v \in Imos : Len(TrackOf(v)) = 1 /\ Inside(TrackOf(v)[1])

\* C4: when a track starts inside the small polygon, no voyage of that
\* vessel has its entry at a position of the initial run of inside positions.
C4_OpeningFragmentExcluded ==
    executed =>
        \A v \in Imos :
            LET T == TrackOf(v)
            IN  \A k \in 1..Len(T) :
                    (\A j \in 1..k : Inside(T[j])) =>
                        ~(/\ T[k].entry
                          /\ \E i \in 1..Len(VoyagesOf(v)) :
                                VoyagesOf(v)[i].entry_id = T[k].entry_id)

\* C5 as stated: a track inside, outside, inside gives one exit, then one
\* unmatched entry, and no voyage; a track that starts inside has an exit at
\* its first outside position.
C5_ExitAfterOpening ==
    executed =>
        \A v \in Imos :
            LET T == TrackOf(v)
            IN  /\ Pattern(T) = <<TRUE, FALSE, TRUE>> =>
                      /\ Len(ExitsOf(v)) = 1
                      /\ Len(EntriesOf(v)) = 1
                      /\ T[2].exit
                      /\ T[3].entry
                      /\ VoyagesOf(v) = <<>>
                /\ \A k \in FirstOutside(T) : T[k].exit

\* C5 amended: a track inside, outside, inside gives no exit, one unmatched
\* entry at the third position, and no voyage; a track that starts inside has
\* an exit at its first outside position exactly when at least two inside
\* positions precede it.
C5_NoExitAfterForcedFirst ==
    executed =>
        \A v \in Imos :
            LET T == TrackOf(v)
            IN  /\ Pattern(T) = <<TRUE, FALSE, TRUE>> =>
                      /\ ExitsOf(v) = <<>>
                      /\ Len(EntriesOf(v)) = 1
                      /\ EntriesOf(v)[1].entry_time = T[3].timestamp
                      /\ T[3].entry
                      /\ VoyagesOf(v) = <<>>
                /\ \A k \in FirstOutside(T) : T[k].exit <=> k >= 3

\* A track inside, outside, inside has been processed.
C5_Witness ==
    /\ executed
    /\ \E v \in Imos :
          /\ Pattern(TrackOf(v)) = <<TRUE, FALSE, TRUE>>
          /\ Len(EntriesOf(v)) = 1

\* C6: every voyage has exit_time >= entry_time, i.e. a non-negative
\* duration.
C6_NonNegativeDuration ==
    \A i \in 1..Len(voyages) :
        /\ voyages[i].exit_time >= voyages[i].entry_time
        /\ voyages[i].duration = voyages[i].exit_time - voyages[i].entry_time
        /\ voyages[i].duration >= 0

\* A voyage came out of a table that was not in timestamp order.
C6_Witness ==
    /\ executed
    /\ \E i \in 1..Len(voyages) : voyages[i].duration > 0
    /\ \E i, j \in 1..Len(df_all) :
          /\ i < j
          /\ df_all[i].imo = df_all[j].imo
          /\ df_all[i].timestamp > df_all[j].timestamp

\* C7: per vessel the events in track order alternate, starting with an
\* entry, hence #exits <= #entries <= #exits + 1.
C7_Alternation ==
    executed =>
        \A v \in Imos :
            LET T == TrackOf(v)
                ev == EventKinds(T, Len(T))
            IN  /\ Len(ev) >= 1 => ev[1] = "entry"
                /\ \A i \in 1..(Len(ev) - 1) : ev[i] # ev[i + 1]
                /\ Len(ev) = Len(EntriesOf(v)) + Len(ExitsOf(v))
                /\ Len(ExitsOf(v)) <= Len(EntriesOf(v))
                /\ Len(EntriesOf(v)) <= Len(ExitsOf(v)) + 1

\* A vessel with the events entry, exit, entry.
C7_Witness ==
    /\ executed
    /\ \E v \in Imos :
          EventKinds(TrackOf(v), Len(TrackOf(v))) = <<"entry", "exit", "entry">>

\* The rows of df_all of vessel v alone.
OnlyVessel(v) ==
    LET Mine(row) == row.imo = v
    IN  SelectSeq(df_all, Mine)

\* A row of gdf_clean without its label.
Unlabelled(row) ==
    [imo |-> row.imo, timestamp |-> row.timestamp,
     latitude |-> row.latitude, longitude |-> row.longitude,
     in_box |-> row.in_box, in_box_shift |-> row.in_box_shift,
     entry |-> row.entry, exit |-> row.exit,
     entry_id |-> row.entry_id, exit_id |-> row.exit_id]

\* C8: the flags, events and voyages of a vessel processed in a batch with
\* other vessels equal those obtained from its positions processed alone.
C8_Independence ==
    executed =>
        \A v \in Imos :
            LET alone == Clean(FilterWithin(reset_index(sort_values(OnlyVessel(v))),
                                            big_poly), small_poly)
                T == TrackOf(v)
            IN  /\ [k \in 1..Len(T) |-> Unlabelled(T[k])]
                      = [k \in 1..Len(alone) |-> Unlabelled(alone[k])]
                /\ EntriesOf(v) = Entries(alone)
                /\ ExitsOf(v) = Exits(alone)
                /\ VoyagesOf(v) = merge(Entries(alone), Exits(alone))

\* Two vessels with identical timestamps in one batch, one with a voyage,
\* the other starting right after a row of the first that is flagged inside.
C8_Witness ==
    /\ executed
    /\ Len(VoyagesOf(1)) + Len(VoyagesOf(2)) >= 1
    /\ Len(TrackOf(1)) >= 1
    /\ Len(TrackOf(2)) >= 1
    /\ \E i \in 1..Len(TrackOf(1)) : \E j \in 1..Len(TrackOf(2)) :
          TrackOf(1)[i].timestamp = TrackOf(2)[j].timestamp

\* C9: a polygon text with an unparseable line, or with fewer than three
\* points, ends the execution in an error before any filtering or detection.
C9_FailFast ==
    status # "idle" =>
        \A text \in {small_poly_text, big_poly_text} :
            (parse_warnings(text) > 0 \/ Len(parse_coords(text)) < 3) =>
                /\ status = "error"
                /\ ~executed

\* C10: containment is boundary-inclusive for both polygons: a position on
\* the boundary of the big polygon is retained, a non-first position on the
\* boundary of the small polygon is flagged true, and a position strictly
\* outside the small polygon is flagged false.
C10_BoundaryInclusive ==
    executed =>
        /\ Len(gdf) = Cardinality({i \in 1..Len(df_all) :
                          Locate(big_poly, points_from_xy(df_all[i])) # "exterior"})
        /\ \A k \in 1..Len(gdf_clean) :
              LET p == points_from_xy(gdf_clean[k])
              IN  /\ (EarlierInGroup(gdf_clean, k) # {} /\ Locate(small_poly, p) = "boundary")
                        => gdf_clean[k].in_box
                  /\ Locate(small_poly, p) = "exterior" => ~gdf_clean[k].in_box

====
